---- MODULE Spec2Model ----
(***************************************************************************)
(* SingleLinkedList<Type> of src/main.cpp: a singly linked list with a     *)
(* sentinel head node, front insertion, Clear, swap, copy construction,    *)
(* copy assignment and comparison operators.                               *)
(*                                                                         *)
(* The heap is a pool of node cells.  `new Node` takes the lowest free     *)
(* cell and throws std::bad_alloc when the pool is exhausted; `delete`     *)
(* gives the cell back.  An element copy (Node's constructor copying the   *)
(* value) can be made to throw, as the ThrowOnCopy helper of the tests     *)
(* does: `fault.at` is the number of the copy, counted inside one call,    *)
(* that throws, and `fault.kind` says whether the thrown object derives    *)
(* from std::exception ("std") or not ("other").                           *)
(*                                                                         *)
(* A cell's number is its address.  The program never looks at an address, *)
(* it only compares pointers, so two states that differ by a renumbering   *)
(* of the cells are the same state.  Every call is computed on the cells   *)
(* as they are; the state it leaves is then stored renumbered in a fixed   *)
(* order (Renumber), together with the state the call started from (`pre`, *)
(* renumbered the same way, so that a pointer saved before the call can be *)
(* compared with the pointers after it, as the tests do with old_begin).   *)
(***************************************************************************)
EXTENDS Integers, Sequences, FiniteSets, TLC

NumLists == 2
MaxNodes == 6
MaxVal == 2
MaxLen == 2
MaxLeaked == 1

NULL == 0

Lists == 1 .. NumLists
Nodes == 1 .. MaxNodes
Values == 1 .. MaxVal
Kinds == {"std", "other"}
NoFault == [at |-> 0, kind |-> "std"]
Faults == {NoFault} \cup [at : 1 .. (2 * MaxLen), kind : Kinds]
PushFaults == {NoFault} \cup [at : {1}, kind : Kinds]
ValueSeqs == UNION {[1 .. n -> Values] : n \in 0 .. MaxLen}

VARIABLES next_node, value, alloc, dfree, live, head_, size_, crashed, last, pre

vars == <<next_node, value, alloc, dfree, live, head_, size_, crashed, last, pre>>

-----------------------------------------------------------------------------
(* The heap and list objects as values the handlers compute with.          *)

Mem == [next_node |-> next_node, value |-> value, alloc |-> alloc, dfree |-> dfree]

EmptyList == [head |-> NULL, size |-> 0]

Obj(l) == [head |-> head_[l], size |-> size_[l]]

MinNode(S) == CHOOSE x \in S : \A y \in S : x <= y

\* Does the copy numbered cnt + 1 throw, and what?
Fails(fault, cnt) == IF fault.at = cnt + 1 THEN fault.kind ELSE "none"

\* new Node(val, nxt): storage first, then Node(const Type&, Node*) copies val.
\* If the copy throws, the new-expression releases the storage again.
NewNode(m, val, nxt, fail) ==
  IF Nodes \ m.alloc = {}
    THEN [mem |-> m, node |-> NULL, exc |-> "std"]
    ELSE IF fail # "none"
      THEN [mem |-> m, node |-> NULL, exc |-> fail]
      ELSE LET n == MinNode(Nodes \ m.alloc) IN
           [mem |-> [m EXCEPT !.next_node[n] = nxt,
                              !.value[n] = val,
                              !.alloc = @ \cup {n}],
            node |-> n, exc |-> "none"]

\* delete target: deleting a cell that is not allocated is a double free.
DeleteNode(m, target) ==
  IF target \in m.alloc
    THEN [m EXCEPT !.next_node[target] = NULL,
                   !.value[target] = 0,
                   !.alloc = @ \ {target}]
    ELSE [m EXCEPT !.dfree = TRUE]

\* PushFrontOn as it would be with size_++ written before the new-expression:
\* a throw then leaves the size incremented.
PushFrontOn_SizeFirst(m, lst, v, cnt, fault) ==
  LET nn == NewNode(m, v, lst.head, Fails(fault, cnt)) IN
  IF nn.exc # "none"
    THEN [mem |-> m, lst |-> [head |-> lst.head, size |-> lst.size + 1],
          cnt |-> cnt, exc |-> nn.exc]
    ELSE [mem |-> nn.mem,
          lst |-> [head |-> nn.node, size |-> lst.size + 1],
          cnt |-> cnt + 1, exc |-> "none"]

\* PushFront on the list object lst (head_.next_node, size_).
PushFrontOn(m, lst, v, cnt, fault) ==
  LET nn == NewNode(m, v, lst.head, Fails(fault, cnt)) IN
  IF nn.exc # "none"
    THEN [mem |-> m, lst |-> lst, cnt |-> cnt, exc |-> nn.exc]
    ELSE [mem |-> nn.mem,
          lst |-> [head |-> nn.node, size |-> lst.size + 1],
          cnt |-> cnt + 1, exc |-> "none"]

\* ClearLoop as it would be with the loop test on the node after the first
\* one (while (head_.next_node->next_node != nullptr)): the last node stays.
RECURSIVE ClearLoop_KeepsLast(_, _, _)
ClearLoop_KeepsLast(m, lst, fuel) ==
  IF lst.head = NULL \/ m.next_node[lst.head] = NULL \/ fuel = 0
    THEN [mem |-> m, lst |-> lst]
    ELSE LET target == lst.head IN
         ClearLoop_KeepsLast(DeleteNode(m, target),
                   [head |-> m.next_node[target], size |-> lst.size - 1],
                   fuel - 1)

\* ClearLoop as it would be without size_--.
RECURSIVE ClearLoop_SizeKept(_, _, _)
ClearLoop_SizeKept(m, lst, fuel) ==
  IF lst.head = NULL \/ fuel = 0
    THEN [mem |-> m, lst |-> lst]
    ELSE LET target == lst.head IN
         ClearLoop_SizeKept(DeleteNode(m, target),
                   [head |-> m.next_node[target], size |-> lst.size],
                   fuel - 1)

\* Clear: unlink and delete the first node until the head link is null.
RECURSIVE ClearLoop(_, _, _)
ClearLoop(m, lst, fuel) ==
  IF lst.head = NULL \/ fuel = 0
    THEN [mem |-> m, lst |-> lst]
    ELSE LET target == lst.head IN
         ClearLoop(DeleteNode(m, target),
                   [head |-> m.next_node[target], size |-> lst.size - 1],
                   fuel - 1)

ClearOn(m, lst) == ClearLoop(m, lst, MaxNodes + 1)

\* while (it != end()) { dst.PushFront(*it); ++it; }
RECURSIVE PushRange(_, _, _, _, _, _)
PushRange(m, it, dst, cnt, fault, fuel) ==
  IF it = NULL \/ fuel = 0
    THEN [mem |-> m, lst |-> dst, cnt |-> cnt, exc |-> "none"]
    ELSE LET Advance(p) ==
               IF p.exc # "none"
                 THEN p
                 ELSE PushRange(p.mem, p.mem.next_node[it], p.lst, p.cnt,
                                fault, fuel - 1)
         IN Advance(PushFrontOn(m, dst, m.value[it], cnt, fault))

\* catch (const std::exception &e)
Catches(exc) == exc = "std"

\* CopyConstruct as it would be copying the head link and the size only:
\* the new list shares the nodes of the source.
CopyConstruct_Shallow(m, other, cnt, fault) ==
  [mem |-> m, lst |-> other, cnt |-> cnt, exc |-> "none"]

\* CopyConstruct as it would be pushing the source's values straight into
\* the new list, without the intermediate list: the copy comes out reversed.
CopyConstruct_OnePass(m, other, cnt, fault) ==
  LET p == PushRange(m, other.head, EmptyList, cnt, fault, MaxNodes + 1) IN
  IF p.exc # "none"
    THEN LET c == IF Catches(p.exc) THEN ClearOn(p.mem, p.lst)
                                    ELSE [mem |-> p.mem, lst |-> p.lst]
         IN [mem |-> c.mem, lst |-> c.lst, cnt |-> p.cnt, exc |-> p.exc]
    ELSE p

\* SingleLinkedList(const SingleLinkedList &other).  lst is the object under
\* construction as the exception (if any) leaves it.
CopyConstruct(m, other, cnt, fault) ==
  LET \* catch (const std::exception &e) { Clear(); throw; } on the object
      \* this, entered with the heap mm after tmp has been destroyed
      Handler(mm, this, p) ==
        IF Catches(p.exc)
          THEN [mem |-> ClearOn(mm, this).mem, lst |-> ClearOn(mm, this).lst,
                cnt |-> p.cnt, exc |-> p.exc]
          ELSE [mem |-> mm, lst |-> this, cnt |-> p.cnt, exc |-> p.exc]
      \* after the second loop (tmp into this); ~tmp runs on either way out
      Second(tmp, p2) ==
        IF p2.exc # "none"
          THEN Handler(ClearOn(p2.mem, tmp).mem, p2.lst, p2)
          ELSE [mem |-> ClearOn(p2.mem, tmp).mem, lst |-> p2.lst,
                cnt |-> p2.cnt, exc |-> "none"]
      \* after the first loop (other into tmp)
      First(p1) ==
        IF p1.exc # "none"
          THEN Handler(ClearOn(p1.mem, p1.lst).mem, EmptyList, p1)
          ELSE Second(p1.lst,
                      PushRange(p1.mem, p1.lst.head, EmptyList, p1.cnt, fault,
                                MaxNodes + 1))
  IN First(PushRange(m, other.head, EmptyList, cnt, fault, MaxNodes + 1))

\* SwapObjs as it would be without std::swap(size_, other.size_).
SwapObjs_HeadsOnly(a, b) == [a |-> [head |-> b.head, size |-> a.size],
                             b |-> [head |-> a.head, size |-> b.size]]

\* swap: std::swap of the head links and of the sizes.
SwapObjs(a, b) == [a |-> [head |-> b.head, size |-> b.size],
                   b |-> [head |-> a.head, size |-> a.size]]

\* operator=: tmp(rhs); swap(tmp); ~tmp.  tmp is the temporary as it is when
\* the exception (if any) leaves the call: a failed tmp never became an object.
CopyAssign(m, this, rhs, fault) ==
  LET Swapped(c, s) ==
        [mem |-> ClearOn(c.mem, s.b).mem, lst |-> s.a,
         tmp |-> ClearOn(c.mem, s.b).lst, exc |-> "none"]
      Built(c) ==
        IF c.exc # "none"
          THEN [mem |-> c.mem, lst |-> this, tmp |-> c.lst, exc |-> c.exc]
          ELSE Swapped(c, SwapObjs(this, c.lst))
  IN Built(CopyConstruct(m, rhs, 0, fault))

\* InitLoop as it would be walking the values from begin() to end(): the
\* list comes out reversed.
RECURSIVE InitLoop_Forward(_, _, _, _, _, _)
InitLoop_Forward(m, values, it, lst, cnt, fault) ==
  LET i == Len(values) + 1 - (it - 1) IN
  IF it - 1 < 1
    THEN [mem |-> m, lst |-> lst, cnt |-> cnt, exc |-> "ub"]
    ELSE LET p == PushFrontOn(m, lst, values[i], cnt, fault) IN
         IF p.exc # "none" \/ it - 1 = 1
           THEN p
           ELSE InitLoop_Forward(p.mem, values, it - 1, p.lst, p.cnt, fault)

\* SingleLinkedList(std::initializer_list<Type>): do { it--; push *it }
\* while (it != begin).  it is a position 1 .. Len(values) + 1 (end).
\* Reading position 0 is a read before the array: exc "ub".
RECURSIVE InitLoop(_, _, _, _, _, _)
InitLoop(m, values, it, lst, cnt, fault) ==
  LET i == it - 1 IN
  IF i < 1
    THEN [mem |-> m, lst |-> lst, cnt |-> cnt, exc |-> "ub"]
    ELSE LET Advance(p) ==
               IF p.exc # "none" \/ i = 1
                 THEN p
                 ELSE InitLoop(p.mem, values, i, p.lst, p.cnt, fault)
         IN Advance(PushFrontOn(m, lst, values[i], cnt, fault))

InitListConstruct(m, values, fault) ==
  InitLoop(m, values, Len(values) + 1, EmptyList, 0, fault)

-----------------------------------------------------------------------------
(* State after construction of the program: no list object exists yet, the *)
(* pool is free.  `last` records the call that produced the current state  *)
(* (its arguments, whether it threw, and the object a failed constructor   *)
(* left behind); `pre` is the state that call started from.                *)

NoCall == [op |-> "none", l |-> 0, o |-> 0, v |-> 0, values |-> <<>>,
           exc |-> "none", obj |-> EmptyList]

Snapshot == [mem |-> Mem, head |-> head_, size |-> size_, live |-> live]

Init ==
  /\ next_node = [n \in Nodes |-> NULL]
  /\ value = [n \in Nodes |-> 0]
  /\ alloc = {}
  /\ dfree = FALSE
  /\ live = [l \in Lists |-> FALSE]
  /\ head_ = [l \in Lists |-> NULL]
  /\ size_ = [l \in Lists |-> 0]
  /\ crashed = FALSE
  /\ last = NoCall
  /\ pre = [mem |-> [next_node |-> [n \in Nodes |-> NULL],
                     value |-> [n \in Nodes |-> 0],
                     alloc |-> {}, dfree |-> FALSE],
            head |-> [l \in Lists |-> NULL],
            size |-> [l \in Lists |-> 0],
            live |-> [l \in Lists |-> FALSE]]

\* The nodes of the chain that starts at node n, following the links nx.
RECURSIVE Chain(_, _, _)
Chain(nx, n, fuel) ==
  IF n = NULL \/ fuel = 0 THEN <<>> ELSE <<n>> \o Chain(nx, nx[n], fuel - 1)

Range(s) == {s[i] : i \in DOMAIN s}

NodesOf(nx, hd) == Range(Chain(nx, hd, MaxNodes + 1))

\* Cells that are allocated and that no list object reaches any more.
Leaked == alloc \ UNION {NodesOf(next_node, head_[l]) : l \in Lists}

\* The program is followed until it has crashed or has lost MaxLeaked cells.
Running == ~crashed /\ Cardinality(Leaked) < MaxLeaked

\* A call that makes at most `copies` element copies is not given a fault
\* beyond them: such a fault never fires, it is NoFault.
FaultOK(fault, copies) == fault.at <= copies

(* Renumbering.  The order of the cells: the chains of the lists after the *)
(* call, the chain a failed constructor left behind, the chains of the     *)
(* lists before the call, then every other cell by its old number.         *)
RECURSIVE Chains(_, _, _)
Chains(nx, hd, l) ==
  IF l > NumLists THEN <<>>
  ELSE Chain(nx, hd[l], MaxNodes + 1) \o Chains(nx, hd, l + 1)

RECURSIVE FirstOccurrences(_, _)
FirstOccurrences(s, seen) ==
  IF s = <<>> THEN <<>>
  ELSE IF Head(s) \in seen THEN FirstOccurrences(Tail(s), seen)
  ELSE <<Head(s)>> \o FirstOccurrences(Tail(s), seen \cup {Head(s)})

CellOrder(m, hd, obj, old) ==
  FirstOccurrences(Chains(m.next_node, hd, 1)
                     \o Chain(m.next_node, obj.head, MaxNodes + 1)
                     \o Chains(old.mem.next_node, old.head, 1)
                     \o [i \in 1 .. MaxNodes |-> i], {})

\* The new number of cell p under the order ord (the null pointer stays null).
NewName(ord, p) == IF p = NULL THEN NULL ELSE CHOOSE i \in Nodes : ord[i] = p

RenumberMem(ord, m) ==
  [next_node |-> [c \in Nodes |-> NewName(ord, m.next_node[ord[c]])],
   value |-> [c \in Nodes |-> m.value[ord[c]]],
   alloc |-> {NewName(ord, n) : n \in m.alloc},
   dfree |-> m.dfree]

RenumberHeads(ord, hd) == [l \in Lists |-> NewName(ord, hd[l])]

\* The state a call leaves: heap m, the list fields, and the call's record;
\* `pre` keeps the state the call started from.
Commit(m, hd, sz, lv, rec) ==
  \E ord \in {CellOrder(m, hd, rec.obj, Snapshot)} :
  \E mm \in {RenumberMem(ord, m)} :
  /\ next_node' = mm.next_node
  /\ value' = mm.value
  /\ alloc' = mm.alloc
  /\ dfree' = mm.dfree
  /\ head_' = RenumberHeads(ord, hd)
  /\ size_' = sz
  /\ live' = lv
  /\ last' = [rec EXCEPT !.obj.head = NewName(ord, rec.obj.head)]
  /\ pre' = [mem |-> RenumberMem(ord, Mem),
             head |-> RenumberHeads(ord, head_),
             size |-> size_, live |-> live]
  /\ UNCHANGED crashed

\* SingleLinkedList()
DefaultCtor(l) ==
  /\ ~live[l] /\ Running
  /\ Commit(Mem, [head_ EXCEPT ![l] = NULL], [size_ EXCEPT ![l] = 0],
            [live EXCEPT ![l] = TRUE],
            [NoCall EXCEPT !.op = "DefaultCtor", !.l = l])

\* PushFront(value)
PushFront(l, v, fault) ==
  /\ live[l] /\ size_[l] < MaxLen /\ FaultOK(fault, 1) /\ Running
  /\ \E p \in {PushFrontOn(Mem, Obj(l), v, 0, fault)} :
     Commit(p.mem, [head_ EXCEPT ![l] = p.lst.head],
            [size_ EXCEPT ![l] = p.lst.size], live,
            [NoCall EXCEPT !.op = "PushFront", !.l = l,
                           !.v = IF p.exc = "none" THEN v ELSE 0,
                           !.exc = p.exc])

\* Clear()
Clear(l) ==
  /\ live[l] /\ Running
  /\ \E c \in {ClearOn(Mem, Obj(l))} :
     Commit(c.mem, [head_ EXCEPT ![l] = c.lst.head],
            [size_ EXCEPT ![l] = c.lst.size], live,
            [NoCall EXCEPT !.op = "Clear", !.l = l])

\* ~SingleLinkedList(): Clear(), then the object (with its sentinel) is gone.
Dtor(l) ==
  /\ live[l] /\ Running
  /\ \E c \in {ClearOn(Mem, Obj(l))} :
     Commit(c.mem, [head_ EXCEPT ![l] = NULL], [size_ EXCEPT ![l] = 0],
            [live EXCEPT ![l] = FALSE],
            [NoCall EXCEPT !.op = "Dtor", !.l = l, !.obj = c.lst])

\* a.swap(b)
Swap(a, b) ==
  /\ live[a] /\ live[b] /\ Running
  /\ \E s \in {SwapObjs(Obj(a), Obj(b))} :
     Commit(Mem,
            [[head_ EXCEPT ![a] = s.a.head] EXCEPT ![b] = s.b.head],
            [[size_ EXCEPT ![a] = s.a.size] EXCEPT ![b] = s.b.size],
            live,
            [NoCall EXCEPT !.op = "swap", !.l = a, !.o = b])

\* swap(lhs, rhs), the free function: lhs.swap(rhs)
FreeSwap(a, b) ==
  /\ live[a] /\ live[b] /\ Running
  /\ \E s \in {SwapObjs(Obj(a), Obj(b))} :
     Commit(Mem,
            [[head_ EXCEPT ![a] = s.a.head] EXCEPT ![b] = s.b.head],
            [[size_ EXCEPT ![a] = s.a.size] EXCEPT ![b] = s.b.size],
            live,
            [NoCall EXCEPT !.op = "freeswap", !.l = a, !.o = b])

\* SingleLinkedList l(other).  A constructor that throws leaves no object:
\* its destructor never runs, so whatever r.lst still links stays allocated.
CopyCtor(l, o, fault) ==
  /\ ~live[l] /\ live[o] /\ FaultOK(fault, 2 * size_[o]) /\ Running
  /\ \E r \in {CopyConstruct(Mem, Obj(o), 0, fault)} :
     IF r.exc # "none"
       THEN Commit(r.mem, head_, size_, live,
                   [NoCall EXCEPT !.op = "CopyCtor", !.l = l, !.o = o,
                           !.exc = r.exc, !.obj = r.lst])
       ELSE Commit(r.mem, [head_ EXCEPT ![l] = r.lst.head],
                   [size_ EXCEPT ![l] = r.lst.size],
                   [live EXCEPT ![l] = TRUE],
                   [NoCall EXCEPT !.op = "CopyCtor", !.l = l, !.o = o])

\* l = o (o may be l itself)
Assign(l, o, fault) ==
  /\ live[l] /\ live[o] /\ FaultOK(fault, 2 * size_[o]) /\ Running
  /\ \E r \in {CopyAssign(Mem, Obj(l), Obj(o), fault)} :
     Commit(r.mem, [head_ EXCEPT ![l] = r.lst.head],
            [size_ EXCEPT ![l] = r.lst.size], live,
            [NoCall EXCEPT !.op = "Assign", !.l = l, !.o = o,
                           !.exc = r.exc, !.obj = r.tmp])

\* The loop of the initializer-list constructor once `it` has left the
\* array: every further *it reads an indeterminate value (kept as 0), and the
\* loop cannot meet begin() again, so it runs until `new` throws.
RECURSIVE RunOff(_, _, _)
RunOff(m, lst, fuel) ==
  LET Advance(p) ==
        IF p.exc # "none" \/ fuel = 0
          THEN [mem |-> p.mem, lst |-> p.lst, cnt |-> 0, exc |-> "std"]
          ELSE RunOff(p.mem, p.lst, fuel - 1)
  IN Advance(PushFrontOn(m, lst, 0, 0, NoFault))

\* SingleLinkedList l{values...}.  A constructor that throws leaves no object,
\* and nothing catches here: what the loop has linked stays allocated.  With
\* no values the first it-- leaves the array (undefined behaviour): the
\* process is killed by the stray read (ub = "crash"), or the loop runs off
\* until the allocation fails (ub = "runoff").
InitListCtor(l, values, fault, ub) ==
  /\ ~live[l] /\ FaultOK(fault, Len(values)) /\ Running
  /\ (ub = "crash" \/ Len(values) = 0)
  /\ \E r0 \in {InitListConstruct(Mem, values, fault)} :
     \E r \in {IF r0.exc = "ub" /\ ub = "runoff"
                 THEN RunOff(r0.mem, r0.lst, MaxNodes) ELSE r0} :
     IF r.exc = "ub"
       THEN /\ crashed' = TRUE
            /\ last' = [NoCall EXCEPT !.op = "InitListCtor", !.l = l,
                                      !.exc = "ub"]
            /\ pre' = Snapshot
            /\ UNCHANGED <<next_node, value, alloc, dfree, live, head_, size_>>
       ELSE IF r.exc # "none"
         THEN Commit(r.mem, head_, size_, live,
                     [NoCall EXCEPT !.op = "InitListCtor", !.l = l,
                                    !.values = values,
                                    !.exc = r.exc, !.obj = r.lst])
         ELSE Commit(r.mem, [head_ EXCEPT ![l] = r.lst.head],
                     [size_ EXCEPT ![l] = r.lst.size],
                     [live EXCEPT ![l] = TRUE],
                     [NoCall EXCEPT !.op = "InitListCtor", !.l = l,
                                    !.values = values])

Next ==
  \/ \E l \in Lists : DefaultCtor(l)
  \/ \E l \in Lists, v \in Values, f \in PushFaults : PushFront(l, v, f)
  \/ \E l \in Lists : Clear(l)
  \/ \E l \in Lists : Dtor(l)
  \/ \E a, b \in Lists : Swap(a, b)
  \/ \E a, b \in Lists : FreeSwap(a, b)
  \/ \E l, o \in Lists, f \in Faults : CopyCtor(l, o, f)
  \/ \E l, o \in Lists, f \in Faults : Assign(l, o, f)
  \/ \E l \in Lists, vs \in ValueSeqs, f \in Faults, ub \in {"crash", "runoff"} :
       InitListCtor(l, vs, f, ub)

Spec == Init /\ [][Next]_vars

-----------------------------------------------------------------------------
(* What a caller observes.                                                 *)

GetSize(l) == size_[l]

IsEmpty(l) == head_[l] = NULL

\* The values met from begin() to end(): ++it follows next_node, *it reads value.
RECURSIVE Iterate(_, _, _, _)
Iterate(nx, vl, it, fuel) ==
  IF it = NULL \/ fuel = 0 THEN <<>>
  ELSE <<vl[it]>> \o Iterate(nx, vl, nx[it], fuel - 1)

Elems(l) == Iterate(next_node, value, head_[l], MaxNodes + 1)

ChainOf(l) == Chain(next_node, head_[l], MaxNodes + 1)

\* The same, read before the call.
ElemsBefore(l) == Iterate(pre.mem.next_node, pre.mem.value, pre.head[l], MaxNodes + 1)

ChainBefore(l) == Chain(pre.mem.next_node, pre.head[l], MaxNodes + 1)

NoRepeat(s) == \A i, j \in DOMAIN s : s[i] = s[j] => i = j

HeapUnchanged == Mem = pre.mem

ListsUnchanged == head_ = pre.head /\ size_ = pre.size /\ live = pre.live

OthersUnchanged(S) ==
  \A k \in Lists \ S :
    head_[k] = pre.head[k] /\ size_[k] = pre.size[k] /\ live[k] = pre.live[k]

\* Every node in N has the value and the successor it had before the call.
NodesKept(N) ==
  \A n \in N : next_node[n] = pre.mem.next_node[n] /\ value[n] = pre.mem.value[n]

-----------------------------------------------------------------------------
\* C5: in every state, after calls that returned and calls that threw, each
\* list's size_ is the number of nodes on its chain, the chain has no cycle
\* and ends in the null link after exactly size_ allocated nodes, and
\* GetSize() = 0 exactly when IsEmpty().
SizeMatchesChain ==
  \A l \in Lists : live[l] =>
    /\ Len(ChainOf(l)) = size_[l]
    /\ size_[l] <= MaxNodes
    /\ NoRepeat(ChainOf(l))
    /\ Range(ChainOf(l)) \subseteq alloc
    /\ (GetSize(l) = 0) <=> IsEmpty(l)

\* A call has thrown while a list holds two nodes.
SizeMatchesChainWitness ==
  /\ last.exc \in Kinds
  /\ \E l \in Lists : live[l] /\ size_[l] = 2 /\ ~IsEmpty(l)

\* C9: a list constructed from the values v1 .. vn (n > 0) has size n and
\* iterating it from begin() to end() gives v1 .. vn in that order.
InitListRoundTrip ==
  (last.op = "InitListCtor" /\ last.exc = "none") =>
    /\ live[last.l]
    /\ GetSize(last.l) = Len(last.values)
    /\ Elems(last.l) = last.values

\* A list has been built from two different values.
InitListRoundTripWitness ==
  /\ last.op = "InitListCtor" /\ last.exc = "none"
  /\ Len(last.values) = 2 /\ last.values[1] # last.values[2]
  /\ Elems(last.l) = last.values

\* C3: PushFront(v) is all or nothing.  When it returns, size_ has grown by
\* exactly 1, the first element is v, the new first node is a new node whose
\* successor is the old first node, and the old chain is untouched; when the
\* allocation or the element copy throws, the exception leaves the call and
\* the list's size and chain, like the rest of the state, are as before.
PushFrontAllOrNothing ==
  last.op = "PushFront" =>
    LET l == last.l IN
    IF last.exc = "none"
      THEN /\ size_[l] = pre.size[l] + 1
           /\ head_[l] \in Nodes \ pre.mem.alloc
           /\ value[head_[l]] = last.v
           /\ next_node[head_[l]] = pre.head[l]
           /\ Tail(ChainOf(l)) = ChainBefore(l)
           /\ Tail(Elems(l)) = ElemsBefore(l)
           /\ alloc = pre.mem.alloc \cup {head_[l]}
           /\ NodesKept(pre.mem.alloc)
           /\ OthersUnchanged({l})
           /\ live[l]
      ELSE /\ last.exc \in Kinds
           /\ HeapUnchanged
           /\ ListsUnchanged

\* A PushFront on a list of one element has thrown something that is no
\* std::exception.
PushFrontAllOrNothingWitness ==
  /\ last.op = "PushFront" /\ last.exc = "other"
  /\ pre.size[last.l] = 1 /\ size_[last.l] = 1 /\ ~IsEmpty(last.l)

\* C6: a.swap(b) and swap(a, b) exchange the head links and the sizes of the
\* two lists and nothing else: no node is allocated, freed or relinked, no
\* value changes, and every other list is untouched.
SwapExchangesHeadsAndSizes ==
  last.op \in {"swap", "freeswap"} =>
    LET a == last.l
        b == last.o
    IN /\ head_[a] = pre.head[b] /\ head_[b] = pre.head[a]
       /\ size_[a] = pre.size[b] /\ size_[b] = pre.size[a]
       /\ OthersUnchanged({a, b})
       /\ live = pre.live
       /\ HeapUnchanged

\* Two different lists with one and two elements have been swapped.
SwapExchangesHeadsAndSizesWitness ==
  /\ last.op \in {"swap", "freeswap"} /\ last.l # last.o
  /\ pre.size[last.l] = 1 /\ size_[last.l] = 2 /\ size_[last.o] = 1
  /\ head_[last.l] # head_[last.o] /\ head_[last.o] = pre.head[last.l]

\* C8: after Clear(), and after the destructor, the list's size is 0 and its
\* head link is null, every node that was on its chain has been deleted, none
\* of them twice, and nothing else has been deleted or changed; Clear()
\* leaves the object (its sentinel) in place, and a PushFront on the cleared
\* list gives the one-element list it gives on a new list.
ClearReleasesAll ==
  last.op \in {"Clear", "Dtor"} =>
    LET l == last.l IN
    /\ size_[l] = 0 /\ head_[l] = NULL
    /\ alloc = pre.mem.alloc \ Range(ChainBefore(l))
    /\ Range(ChainBefore(l)) \cap alloc = {}
    /\ ~dfree
    /\ live[l] = (last.op = "Clear")
    /\ OthersUnchanged({l})
    /\ NodesKept(alloc)
    /\ (last.op = "Clear" /\ alloc # Nodes) =>
         \A v \in Values :
           LET p == PushFrontOn(Mem, Obj(l), v, 0, NoFault) IN
           /\ p.exc = "none" /\ p.lst.size = 1
           /\ p.mem.value[p.lst.head] = v
           /\ p.mem.next_node[p.lst.head] = NULL

\* A list of two elements has been cleared.
ClearReleasesAllWitness ==
  /\ last.op = "Clear" /\ pre.size[last.l] = 2
  /\ live[last.l] /\ size_[last.l] = 0 /\ IsEmpty(last.l)

-----------------------------------------------------------------------------
(* Copy construction and copy assignment.                                  *)

\* The list o is what it was: same head link, same size, same nodes with the
\* same values and successors, all still allocated.
SourceKept(o) ==
  /\ head_[o] = pre.head[o] /\ size_[o] = pre.size[o] /\ live[o]
  /\ ChainOf(o) = ChainBefore(o)
  /\ Range(ChainBefore(o)) \subseteq alloc
  /\ NodesKept(Range(ChainBefore(o)))

\* The list l is now a copy of what o was, built from new nodes.
IsFreshCopy(l, o) ==
  /\ live[l]
  /\ size_[l] = pre.size[o]
  /\ Elems(l) = ElemsBefore(o)
  /\ Range(ChainOf(l)) \cap pre.mem.alloc = {}
  /\ Range(ChainOf(l)) \subseteq alloc
  /\ (pre.head[o] # NULL => head_[l] # pre.head[o])
  /\ (pre.head[o] = NULL => head_[l] = NULL /\ size_[l] = 0)

\* C7 as stated: a copy construction or a copy assignment D = S that does not
\* throw gives a target with S's size and element sequence, built from nodes
\* none of which is a node of S, and leaves S's size, nodes and values
\* unchanged.  (Fails for D = D, which replaces the nodes of D.)
CopyLeavesSourceAsStated ==
  (last.op \in {"CopyCtor", "Assign"} /\ last.exc = "none") =>
    /\ IsFreshCopy(last.l, last.o)
    /\ SourceKept(last.o)

\* C7, amended: as stated when the target and the source are different
\* lists; a self-assignment D = D that does not throw keeps D's size and
\* element sequence and replaces every node of D by a new node.
CopyGivesEqualIndependentList ==
  (last.op \in {"CopyCtor", "Assign"} /\ last.exc = "none") =>
    /\ IsFreshCopy(last.l, last.o)
    /\ (last.l # last.o => SourceKept(last.o))
    /\ OthersUnchanged({last.l})
    /\ alloc \ Range(ChainOf(last.l)) = pre.mem.alloc \ Range(ChainBefore(last.l))

\* A two-element list with two different values has been assigned to another
\* list.
CopyGivesEqualIndependentListWitness ==
  /\ last.op = "Assign" /\ last.exc = "none" /\ last.l # last.o
  /\ size_[last.l] = 2 /\ Elems(last.l) = Elems(last.o)
  /\ Elems(last.l)[1] # Elems(last.l)[2]
  /\ Range(ChainOf(last.l)) \cap Range(ChainOf(last.o)) = {}

\* C1: when an element copy (or an allocation) fails while D = S runs, the
\* exception reaches the caller, D and every other list keep head link, size
\* and nodes, and every node the attempt allocated has been freed again.
AssignFailureLeavesNoTrace ==
  (last.op = "Assign" /\ last.exc # "none") =>
    /\ last.exc \in Kinds
    /\ ListsUnchanged
    /\ ChainOf(last.l) = ChainBefore(last.l)
    /\ NodesKept(pre.mem.alloc)
    /\ alloc = pre.mem.alloc

\* C2: when an element copy (or an allocation) fails during copy
\* construction, the exception reaches the caller, the list under
\* construction is left empty (size 0, null head link), and every node the
\* attempt allocated, for the intermediate list and for the target, has been
\* freed again.
CopyCtorFailureRollsBack ==
  (last.op = "CopyCtor" /\ last.exc # "none") =>
    /\ last.exc \in Kinds
    /\ last.obj = EmptyList
    /\ ListsUnchanged
    /\ NodesKept(pre.mem.alloc)
    /\ alloc = pre.mem.alloc

\* C4: when copying a value fails during construction from a non-empty
\* sequence of values, the nodes allocated for the values processed before
\* it are freed before the exception reaches the caller.
InitListFailureReleasesNodes ==
  (last.op = "InitListCtor" /\ last.exc \in Kinds /\ Len(last.values) > 0) =>
    alloc = pre.mem.alloc

\* What the code does keep of C1 and C2: a failure that is a std::exception
\* (std::bad_alloc included) is rolled back completely, and a failure of any
\* kind leaves every existing list and node as it was; only the nodes already
\* linked into the target are lost when the exception is no std::exception.
CaughtFailureRollsBack ==
  (last.op \in {"CopyCtor", "Assign"} /\ last.exc # "none") =>
    /\ ListsUnchanged
    /\ NodesKept(pre.mem.alloc)
    /\ pre.mem.alloc \subseteq alloc
    /\ (last.exc = "std" => last.obj = EmptyList /\ alloc = pre.mem.alloc)
    /\ alloc \ pre.mem.alloc = Range(Chain(next_node, last.obj.head, MaxNodes + 1))

-----------------------------------------------------------------------------
(* The comparison operators.                                               *)

\* operator==: sizes first, then the elements pairwise; rhs_it is advanced
\* and read without a test of its own.
RECURSIVE EqLoop(_, _, _)
EqLoop(lhs_it, rhs_it, fuel) ==
  IF lhs_it = NULL \/ fuel = 0 THEN TRUE
  ELSE IF value[lhs_it] # value[rhs_it] THEN FALSE
  ELSE EqLoop(next_node[lhs_it], next_node[rhs_it], fuel - 1)

OpEq(lhs, rhs) ==
  IF GetSize(lhs) # GetSize(rhs) THEN FALSE
  ELSE EqLoop(head_[lhs], head_[rhs], MaxNodes + 1)

OpNe(lhs, rhs) == ~OpEq(lhs, rhs)

\* std::lexicographical_compare(first1, last1, first2, last2); both last
\* iterators are end() const, the null iterator.
RECURSIVE LexicographicalCompare(_, _, _)
LexicographicalCompare(first1, first2, fuel) ==
  IF first1 = NULL \/ first2 = NULL \/ fuel = 0
    THEN first1 = NULL /\ first2 # NULL
  ELSE IF value[first1] < value[first2] THEN TRUE
  ELSE IF value[first2] < value[first1] THEN FALSE
  ELSE LexicographicalCompare(next_node[first1], next_node[first2], fuel - 1)

OpLt(lhs, rhs) == LexicographicalCompare(head_[lhs], head_[rhs], MaxNodes + 1)

OpLe(lhs, rhs) == OpEq(lhs, rhs) \/ OpLt(lhs, rhs)

\* OpGt as it would be written as !(lhs < rhs).
OpGt_NotLess(lhs, rhs) == ~OpLt(lhs, rhs)

OpGt(lhs, rhs) == ~OpLe(lhs, rhs)

OpGe(lhs, rhs) == OpGt(lhs, rhs) \/ OpEq(lhs, rhs)

\* The comparisons of two sequences that the operators are to compute.
SeqEq(s, t) == Len(s) = Len(t) /\ \A i \in 1 .. Len(s) : s[i] = t[i]

SeqLess(s, t) ==
  \/ Len(s) < Len(t) /\ \A i \in 1 .. Len(s) : s[i] = t[i]
  \/ \E k \in 1 .. Len(s) :
       /\ k <= Len(t)
       /\ \A i \in 1 .. (k - 1) : s[i] = t[i]
       /\ s[k] < t[k]

\* C10: for all lists A and B, A == B iff their element sequences have the
\* same length and are pairwise equal, A != B is the negation, A < B iff A's
\* sequence is lexicographically smaller (a proper prefix is smaller),
\* A <= B iff A == B or A < B, A > B iff B < A, A >= B iff not A < B.
ComparisonsMatchSequences ==
  \A a, b \in Lists : (live[a] /\ live[b]) =>
    /\ OpEq(a, b) <=> SeqEq(Elems(a), Elems(b))
    /\ OpNe(a, b) <=> ~SeqEq(Elems(a), Elems(b))
    /\ OpLt(a, b) <=> SeqLess(Elems(a), Elems(b))
    /\ OpLe(a, b) <=> (SeqEq(Elems(a), Elems(b)) \/ SeqLess(Elems(a), Elems(b)))
    /\ OpGt(a, b) <=> SeqLess(Elems(b), Elems(a))
    /\ OpGe(a, b) <=> ~SeqLess(Elems(a), Elems(b))

\* Two lists exist of which one is a proper, non-empty prefix of the other.
ComparisonsMatchSequencesWitness ==
  \E a, b \in Lists :
    /\ live[a] /\ live[b]
    /\ size_[a] = 1 /\ size_[b] = 2
    /\ Elems(a)[1] = Elems(b)[1]
    /\ OpLt(a, b) /\ OpGt(b, a) /\ OpNe(a, b)

-----------------------------------------------------------------------------
(* Ownership of the nodes.                                                 *)

\* The links that hold node n: the head links of the lists and the
\* next_node fields of the allocated nodes.
HeadOwners(n) == {l \in Lists : head_[l] = n}

NodeOwners(n) == {p \in alloc : next_node[p] = n}

\* C11: after any sequence of PushFront, Clear, swap, copy construction, copy
\* assignment (self-assignment included) and destruction, no node is
\* reachable from the head links of two different lists, no node is the
\* successor of two nodes (nor both the first node of a list and a
\* successor), no node has been freed more than once, and no list's chain
\* contains a freed node.
EveryNodeHasOneOwner ==
  /\ \A a, b \in Lists :
       a # b => Range(ChainOf(a)) \cap Range(ChainOf(b)) = {}
  /\ \A n \in Nodes : Cardinality(HeadOwners(n)) + Cardinality(NodeOwners(n)) <= 1
  /\ ~dfree
  /\ \A l \in Lists : Range(ChainOf(l)) \subseteq alloc
  /\ \A l \in Lists : \A n \in Range(ChainOf(l)) :
       Cardinality(HeadOwners(n)) + Cardinality(NodeOwners(n)) = 1

\* A non-empty list has been assigned to itself while another non-empty
\* list exists: its old nodes were freed, its new ones are its own.
EveryNodeHasOneOwnerWitness ==
  /\ last.op = "Assign" /\ last.exc = "none" /\ last.l = last.o
  /\ \A l \in Lists : live[l] /\ size_[l] > 0
  /\ Range(ChainOf(last.l)) \cap pre.mem.alloc = {}
  /\ Range(ChainBefore(last.l)) \cap alloc = {}

-----------------------------------------------------------------------------
(* Construction from an empty sequence of values.                          *)

\* C12: constructing a list from an empty sequence of initial values gives
\* an empty list (size 0, IsEmpty() true, begin() == end()), and the
\* construction never reads a position outside the input sequence.
InitListEmptyGivesEmptyList ==
  (last.op = "InitListCtor" /\ last.values = <<>>) =>
    /\ last.exc = "none"
    /\ ~crashed
    /\ live[last.l]
    /\ GetSize(last.l) = 0 /\ IsEmpty(last.l) /\ head_[last.l] = NULL

\* What the code does with an empty sequence: the first it-- leaves the
\* array, and the call never returns a list; the process is killed, or the
\* loop allocates until `new` throws and the nodes it has linked are lost.
InitListEmptyNeverConstructs ==
  (last.op = "InitListCtor" /\ last.values = <<>>) =>
    /\ ~live[last.l]
    /\ \/ crashed /\ last.exc = "ub"
       \/ /\ ~crashed /\ last.exc = "std"
          /\ alloc = Nodes
          /\ (pre.mem.alloc # Nodes => Leaked # {})

====
